---- MODULE Spec2Model ----
(***************************************************************************)
(* Task registry of src/task.py: a Flask application over one SQLite      *)
(* table `tasks`.  The table is modelled as the sequence of its rows in   *)
(* rowid order (the order of a table scan); every SQL statement is an     *)
(* operator on that sequence, every request handler is a chain of         *)
(* segments, one per committed SQL statement, and a request is served     *)
(* either as a whole (requests executed one after another, Spec) or       *)
(* segment by segment by concurrent workers (ConcSpec).                   *)
(***************************************************************************)
EXTENDS Integers, Sequences, FiniteSets, TLC

VARIABLES db, thr

vars == <<db, thr>>

(***************************************************************************)
(* Bounds of the model.                                                    *)
(***************************************************************************)
\* valid estimates are 1..MaxMinutes
MaxMinutes == 2
\* readings of the store's clock (CURRENT_TIMESTAMP) are 0..MaxClock
MaxClock == 1
\* the limit query argument ranges over -1..MaxLimit
MaxLimit == 2

TaskIds == {"T1", "T2"}
Descriptions == {"", "d"}
Times == 0..MaxClock
Threads == {"w1", "w2"}
SeqThreads == {"w1"}

(***************************************************************************)
(* JSON values of a request body.  A key that is absent from the body is  *)
(* the value Missing.  JFloat(n) stands for the fractional number n + 0.5.*)
(***************************************************************************)
JStr(s) == [type |-> "str", s |-> s, n |-> 0]
JInt(n) == [type |-> "int", s |-> "", n |-> n]
JBool(b) == [type |-> "bool", s |-> "", n |-> IF b THEN 1 ELSE 0]
JFloat(n) == [type |-> "float", s |-> "", n |-> n]
JNull == [type |-> "null", s |-> "", n |-> 0]
Missing == [type |-> "missing", s |-> "", n |-> 0]

\* Python's isinstance(v, int): bool is a subclass of int
IsInstanceInt(v) == v.type \in {"int", "bool"}

\* the body of a request: the keys the handlers read
NoData == [task_str_id |-> Missing, description |-> Missing,
           estimated_time_minutes |-> Missing, new_status |-> Missing]

\* Python's `not data` for a parsed body: None or an empty object
NotData(data) == data = NoData

\* the query arguments of GET /tasks/pending; limit is <<>> (None) or <<n>>
NoArgs == [sort_by |-> "estimated_time_minutes", order |-> "asc", limit |-> <<>>]

(***************************************************************************)
(* The table and its SQL statements.                                       *)
(***************************************************************************)
Statuses == {"pending", "processing", "completed"}

Row(id, description, minutes, status, at) ==
    [task_str_id |-> id, description |-> description,
     estimated_time_minutes |-> minutes, status |-> status, submitted_at |-> at]

Ids(d) == {d[i].task_str_id : i \in 1..Len(d)}

\* SELECT * FROM tasks WHERE task_str_id = ?  (fetchone: <<>> is None)
SelectById(d, id) == SelectSeq(d, LAMBDA r : r.task_str_id = id)

\* an INSERT that binds the description and the task_str_id in each other's place
InsertTask_SwappedColumns(d, id, description, minutes, now) ==
    Append(d, Row(description, id, minutes, "pending", now))

\* INSERT INTO tasks (...) VALUES (?, ?, ?, 'pending'): the new row takes the
\* largest rowid and submitted_at DEFAULT CURRENT_TIMESTAMP
InsertTask(d, id, description, minutes, now) ==
    Append(d, Row(id, description, minutes, "pending", now))

\* a table whose task_str_id is no key
IntegrityError_NoPrimaryKey(d, data) == data.description.type = "null"

\* the constraints of the table: PRIMARY KEY, NOT NULL
IntegrityError(d, data) ==
    \/ data.task_str_id.s \in Ids(d)
    \/ data.description.type = "null"

\* an UPDATE without its WHERE clause
UpdateStatus_AllRows(d, id, status) ==
    [i \in 1..Len(d) |-> [d[i] EXCEPT !.status = status]]

\* an UPDATE that inserts the row it does not find
UpdateStatus_Upsert(d, id, status) ==
    IF id \in Ids(d)
    THEN [i \in 1..Len(d) |->
            IF d[i].task_str_id = id THEN [d[i] EXCEPT !.status = status] ELSE d[i]]
    ELSE Append(d, Row(id, "", 1, status, 0))

\* UPDATE tasks SET status = ? WHERE task_str_id = ?
UpdateStatus(d, id, status) ==
    [i \in 1..Len(d) |->
        IF d[i].task_str_id = id THEN [d[i] EXCEPT !.status = status] ELSE d[i]]

\* a DELETE without its WHERE clause
DeleteById_AllRows(d, id) == IF id \in Ids(d) THEN <<>> ELSE d

\* DELETE FROM tasks WHERE task_str_id = ?
DeleteById(d, id) == SelectSeq(d, LAMBDA r : r.task_str_id # id)

(***************************************************************************)
(* A worker's frame: the request it serves, where it is in the handler,   *)
(* and the response once the handler has returned (pc = "done").          *)
(***************************************************************************)
Idle == [op |-> "idle", pc |-> "idle", id |-> "", data |-> NoData, args |-> NoArgs,
         code |-> 0, error |-> "", rows |-> <<>>]

Request(op, id, data, args) ==
    [Idle EXCEPT !.op = op, !.pc = "start", !.id = id, !.data = data, !.args = args]

\* return jsonify({"error": message}), code
Fail(f, code, message) == [f EXCEPT !.pc = "done", !.code = code, !.error = message]

\* return jsonify(rows), code
Reply(f, code, rows) == [f EXCEPT !.pc = "done", !.code = code, !.rows = rows]

\* jsonify(dict_from_row(task)): dict_from_row(None) raises, which the
\* handler's `except Exception` turns into a 500
ReplyRow(f, code, task) ==
    IF task = <<>> THEN Fail(f, 500, "exception") ELSE Reply(f, code, task)

(***************************************************************************)
(* create_task: validation, INSERT and commit; then the SELECT of the     *)
(* created row.                                                            *)
(***************************************************************************)
required_fields == <<"task_str_id", "description", "estimated_time_minutes">>

MissingFields(data) ==
    SelectSeq(required_fields, LAMBDA k : data[k] = Missing)

CreateTaskInsert(d, f, now) ==
    LET data == f.data
        minutes == data.estimated_time_minutes
    IN  IF NotData(data)
        THEN [db |-> d, fr |-> Fail(f, 400, "No JSON data provided")]
        ELSE IF MissingFields(data) # <<>>
        THEN [db |-> d, fr |-> Fail(f, 400, "Missing required field")]
        ELSE IF ~IsInstanceInt(minutes) \/ minutes.n <= 0
        THEN [db |-> d,
              fr |-> Fail(f, 400, "estimated_time_minutes must be greater than 0")]
        ELSE IF IntegrityError(d, data)
        THEN [db |-> d, fr |-> Fail(f, 400, "task_str_id must be unique")]
        ELSE [db |-> InsertTask(d, data.task_str_id.s, data.description.s,
                                minutes.n, now),
              fr |-> [f EXCEPT !.pc = "select", !.id = data.task_str_id.s]]

CreateTaskSelect(d, f) ==
    [db |-> d, fr |-> ReplyRow(f, 201, SelectById(d, f.id))]

(***************************************************************************)
(* get_task                                                                *)
(***************************************************************************)
GetTaskSelect(d, f) ==
    LET task == SelectById(d, f.id)
    IN  [db |-> d,
         fr |-> IF task # <<>> THEN Reply(f, 200, task)
                ELSE Fail(f, 404, "Task not found")]

(***************************************************************************)
(* update_task_status: validation and the SELECT of the current row with  *)
(* the transition check; the UPDATE and commit; the SELECT of the updated *)
(* row.                                                                    *)
(***************************************************************************)
\* a list with one more status
allowed_statuses_Extra == <<"pending", "processing", "completed", "bogus">>

allowed_statuses == <<"pending", "processing", "completed">>

\* the list without its last pair
invalid_transitions_TwoPairs ==
    <<(<<"completed", "pending">>),
      (<<"completed", "processing">>)>>

\* the list of a rule that lets a task advance only one status at a time
invalid_transitions_OneStep ==
    <<(<<"completed", "pending">>),
      (<<"completed", "processing">>),
      (<<"processing", "pending">>),
      (<<"pending", "completed">>)>>

invalid_transitions ==
    <<(<<"completed", "pending">>),
      (<<"completed", "processing">>),
      (<<"processing", "pending">>)>>

\* Python's `x in list`
In(x, list) == \E i \in 1..Len(list) : list[i] = x

\* a handler that looks the task up before it validates the body
UpdateStatusSelect_LookupFirst(d, f) ==
    LET new_status == f.data.new_status
        current_task == SelectById(d, f.id)
    IN  IF current_task = <<>>
        THEN [db |-> d, fr |-> Fail(f, 404, "Task not found")]
        ELSE IF NotData(f.data) \/ new_status = Missing
        THEN [db |-> d, fr |-> Fail(f, 400, "Missing required field: new_status")]
        ELSE IF ~(new_status.type = "str" /\ In(new_status.s, allowed_statuses))
        THEN [db |-> d, fr |-> Fail(f, 400, "Invalid status")]
        ELSE IF In(<<current_task[1].status, new_status.s>>, invalid_transitions)
        THEN [db |-> d, fr |-> Fail(f, 400, "Invalid status transition")]
        ELSE [db |-> d, fr |-> [f EXCEPT !.pc = "update"]]

UpdateStatusSelect(d, f) ==
    LET new_status == f.data.new_status
        current_task == SelectById(d, f.id)
    IN  IF NotData(f.data) \/ new_status = Missing
        THEN [db |-> d, fr |-> Fail(f, 400, "Missing required field: new_status")]
        ELSE IF ~(new_status.type = "str" /\ In(new_status.s, allowed_statuses))
        THEN [db |-> d, fr |-> Fail(f, 400, "Invalid status")]
        ELSE IF current_task = <<>>
        THEN [db |-> d, fr |-> Fail(f, 404, "Task not found")]
        ELSE IF In(<<current_task[1].status, new_status.s>>, invalid_transitions)
        THEN [db |-> d, fr |-> Fail(f, 400, "Invalid status transition")]
        ELSE [db |-> d, fr |-> [f EXCEPT !.pc = "update"]]

UpdateStatusUpdate(d, f) ==
    [db |-> UpdateStatus(d, f.id, f.data.new_status.s),
     fr |-> [f EXCEPT !.pc = "select"]]

UpdateStatusReselect(d, f) ==
    [db |-> d, fr |-> ReplyRow(f, 200, SelectById(d, f.id))]

(***************************************************************************)
(* ORDER BY and LIMIT.  SQLite sorts the rows of the scan stably: rows    *)
(* that agree on every term stay in rowid order, ascending or descending. *)
(***************************************************************************)
Asc(col) == [col |-> col, desc |-> FALSE]
Desc(col) == [col |-> col, desc |-> TRUE]

\* r1 sorts strictly before r2 under the ORDER BY terms
RECURSIVE Before(_, _, _)
Before(r1, r2, terms) ==
    IF terms = <<>> THEN FALSE
    ELSE LET c == Head(terms).col
         IN  IF r1[c] = r2[c] THEN Before(r1, r2, Tail(terms))
             ELSE IF Head(terms).desc THEN r1[c] > r2[c] ELSE r1[c] < r2[c]

\* r put into the sorted sequence s behind every row that does not sort after it
InsertRow(s, r, terms) ==
    LET after == {i \in 1..Len(s) : Before(r, s[i], terms)}
        k == IF after = {} THEN Len(s) + 1
             ELSE CHOOSE i \in after : \A j \in after : i <= j
    IN  SubSeq(s, 1, k - 1) \o <<r>> \o SubSeq(s, k, Len(s))

RECURSIVE OrderBy(_, _)
OrderBy(rows, terms) ==
    IF rows = <<>> THEN <<>>
    ELSE InsertRow(OrderBy(SubSeq(rows, 1, Len(rows) - 1), terms),
                   rows[Len(rows)], terms)

\* a LIMIT that stops one row early
Limit_OneShort(rows, n) ==
    IF n < 0 \/ n > Len(rows) THEN rows ELSE SubSeq(rows, 1, n - 1)

\* LIMIT n: a negative n is no limit
Limit(rows, n) ==
    IF n < 0 \/ n >= Len(rows) THEN rows ELSE SubSeq(rows, 1, n)

\* WHERE status = 'pending'
WherePending(d) == SelectSeq(d, LAMBDA r : r.status = "pending")

(***************************************************************************)
(* get_next_task_to_process                                                *)
(***************************************************************************)
\* ORDER BY estimated_time_minutes ASC alone
NextOrder_EstimateOnly == <<Asc("estimated_time_minutes")>>

NextOrder == <<Asc("estimated_time_minutes"), Asc("submitted_at")>>

\* a handler that claims the task it returns
GetNextTaskToProcessSelect_Claims(d, f) ==
    LET task == Limit(OrderBy(WherePending(d), NextOrder), 1)
    IN  IF task # <<>>
        THEN [db |-> UpdateStatus(d, task[1].task_str_id, "processing"),
              fr |-> Reply(f, 200, task)]
        ELSE [db |-> d, fr |-> Fail(f, 404, "No pending tasks found")]

GetNextTaskToProcessSelect(d, f) ==
    LET task == Limit(OrderBy(WherePending(d), NextOrder), 1)
    IN  [db |-> d,
         fr |-> IF task # <<>> THEN Reply(f, 200, task)
                ELSE Fail(f, 404, "No pending tasks found")]

(***************************************************************************)
(* list_pending_tasks                                                      *)
(***************************************************************************)
\* `if limit is not None:`
Truthy_NotNone(limit) == limit # <<>>

\* `if limit:` is false for None and for 0
Truthy(limit) == limit # <<>> /\ limit[1] # 0

\* a handler that does not validate the order argument
ListPendingTasksSelect_AnyOrder(d, f) ==
    LET sort_by == IF f.args.sort_by = "time" THEN "estimated_time_minutes"
                   ELSE f.args.sort_by
        order == f.args.order
        limit == f.args.limit
        sorted == OrderBy(WherePending(d),
                          <<IF order = "desc" THEN Desc(sort_by) ELSE Asc(sort_by)>>)
    IN  IF sort_by \notin {"estimated_time_minutes", "submitted_at"}
        THEN [db |-> d, fr |-> Fail(f, 400, "Invalid sort_by parameter")]
        ELSE [db |-> d,
              fr |-> Reply(f, 200, IF Truthy(limit) THEN Limit(sorted, limit[1])
                                   ELSE sorted)]

ListPendingTasksSelect(d, f) ==
    LET sort_by == IF f.args.sort_by = "time" THEN "estimated_time_minutes"
                   ELSE f.args.sort_by
        order == f.args.order
        limit == f.args.limit
        sorted == OrderBy(WherePending(d),
                          <<IF order = "desc" THEN Desc(sort_by) ELSE Asc(sort_by)>>)
    IN  IF sort_by \notin {"estimated_time_minutes", "submitted_at"}
        THEN [db |-> d, fr |-> Fail(f, 400, "Invalid sort_by parameter")]
        ELSE IF order \notin {"asc", "desc"}
        THEN [db |-> d, fr |-> Fail(f, 400, "Invalid order parameter")]
        ELSE [db |-> d,
              fr |-> Reply(f, 200, IF Truthy(limit) THEN Limit(sorted, limit[1])
                                   ELSE sorted)]

(***************************************************************************)
(* list_all_tasks                                                          *)
(***************************************************************************)
ListAllTasksSelect(d, f) ==
    [db |-> d, fr |-> Reply(f, 200, OrderBy(d, <<Desc("submitted_at")>>))]

(***************************************************************************)
(* delete_task: cursor.rowcount is the number of rows the DELETE removed  *)
(***************************************************************************)
\* a handler that answers before it commits: the DELETE is rolled back
DeleteTaskDelete_NoCommit(d, f) ==
    LET rowcount == Len(d) - Len(DeleteById(d, f.id))
    IN  IF rowcount = 0
        THEN [db |-> d, fr |-> Fail(f, 404, "Task not found")]
        ELSE [db |-> d, fr |-> Fail(f, 200, "Task deleted successfully")]

DeleteTaskDelete(d, f) ==
    LET rowcount == Len(d) - Len(DeleteById(d, f.id))
    IN  IF rowcount = 0
        THEN [db |-> d, fr |-> Fail(f, 404, "Task not found")]
        ELSE [db |-> DeleteById(d, f.id),
              fr |-> Fail(f, 200, "Task deleted successfully")]

(***************************************************************************)
(* One segment of a handler, and a handler run from its start to its      *)
(* return.                                                                 *)
(***************************************************************************)
Segment(d, f, now) ==
    CASE f.op = "create_task" /\ f.pc = "start" -> CreateTaskInsert(d, f, now)
      [] f.op = "create_task" /\ f.pc = "select" -> CreateTaskSelect(d, f)
      [] f.op = "get_task" /\ f.pc = "start" -> GetTaskSelect(d, f)
      [] f.op = "update_task_status" /\ f.pc = "start" -> UpdateStatusSelect(d, f)
      [] f.op = "update_task_status" /\ f.pc = "update" -> UpdateStatusUpdate(d, f)
      [] f.op = "update_task_status" /\ f.pc = "select" -> UpdateStatusReselect(d, f)
      [] f.op = "get_next_task_to_process" /\ f.pc = "start" ->
            GetNextTaskToProcessSelect(d, f)
      [] f.op = "list_pending_tasks" /\ f.pc = "start" -> ListPendingTasksSelect(d, f)
      [] f.op = "list_all_tasks" /\ f.pc = "start" -> ListAllTasksSelect(d, f)
      [] f.op = "delete_task" /\ f.pc = "start" -> DeleteTaskDelete(d, f)

RECURSIVE RunHandler(_, _, _)
RunHandler(d, f, now) ==
    LET s == Segment(d, f, now)
    IN  IF s.fr.pc = "done" THEN s ELSE RunHandler(s.db, s.fr, now)

(***************************************************************************)
(* Requests.  A request is served as a whole when requests are executed   *)
(* one after another (whole = TRUE), and segment by segment when workers  *)
(* run concurrently: every segment is one SQL statement with its commit,  *)
(* which SQLite executes atomically.                                       *)
(***************************************************************************)
Served(t, s) ==
    /\ db' = s.db
    /\ thr' = [thr EXCEPT ![t] = s.fr]

Step(whole, f, now) ==
    IF whole THEN RunHandler(db, f, now) ELSE Segment(db, f, now)

MinutesInputs ==
    {JInt(n) : n \in 0..MaxMinutes}
        \cup {JBool(TRUE), JBool(FALSE), JStr("1"), JFloat(1)}

\* the bodies of POST /tasks: every key present, or one key left out, or none
CreateBodies ==
    LET full == {[NoData EXCEPT !.task_str_id = JStr(i), !.description = de,
                                !.estimated_time_minutes = m] :
                    i \in TaskIds,
                    de \in {JStr(x) : x \in Descriptions} \cup {JNull},
                    m \in MinutesInputs}
        some == [NoData EXCEPT !.task_str_id = JStr("T1"), !.description = JStr("d"),
                               !.estimated_time_minutes = JInt(1)]
    IN  full \cup {[some EXCEPT ![k] = Missing] : k \in DOMAIN NoData} \cup {NoData}

StatusInputs ==
    {JStr(x) : x \in Statuses} \cup {JStr("bogus"), Missing}

SortInputs == {"estimated_time_minutes", "time", "submitted_at", "status"}
OrderInputs == {"asc", "desc", "ASC"}
LimitInputs == {<<>>} \cup {<<n>> : n \in -1..MaxLimit}

ListArgs ==
    [sort_by : SortInputs, order : OrderInputs, limit : LimitInputs]

\* POST /tasks
CreateTask(t, whole, bodies) ==
    /\ thr[t] = Idle
    /\ \E data \in bodies, now \in Times :
          Served(t, Step(whole, Request("create_task", "", data, NoArgs), now))

\* GET /tasks/<task_str_id>
GetTask(t, whole, ids) ==
    /\ thr[t] = Idle
    /\ \E id \in ids :
          Served(t, Step(whole, Request("get_task", id, NoData, NoArgs), 0))

\* PUT /tasks/<task_str_id>/status
UpdateTaskStatus(t, whole, ids, statuses) ==
    /\ thr[t] = Idle
    /\ \E id \in ids, ns \in statuses :
          Served(t, Step(whole, Request("update_task_status", id,
                                        [NoData EXCEPT !.new_status = ns], NoArgs), 0))

\* GET /tasks/next-to-process
GetNextTaskToProcess(t, whole) ==
    /\ thr[t] = Idle
    /\ Served(t, Step(whole, Request("get_next_task_to_process", "", NoData, NoArgs), 0))

\* GET /tasks/pending
ListPendingTasks(t, whole, arguments) ==
    /\ thr[t] = Idle
    /\ \E args \in arguments :
          Served(t, Step(whole, Request("list_pending_tasks", "", NoData, args), 0))

\* GET /tasks
ListAllTasks(t, whole) ==
    /\ thr[t] = Idle
    /\ Served(t, Step(whole, Request("list_all_tasks", "", NoData, NoArgs), 0))

\* DELETE /tasks/<task_str_id>
DeleteTask(t, whole, ids) ==
    /\ thr[t] = Idle
    /\ \E id \in ids :
          Served(t, Step(whole, Request("delete_task", id, NoData, NoArgs), 0))

\* a worker inside a handler executes the handler's next segment
Continue(t) ==
    /\ thr[t].pc \notin {"idle", "done"}
    /\ Served(t, Segment(db, thr[t], 0))

\* the response is delivered and the worker is free again
Return(t) ==
    /\ thr[t].pc = "done"
    /\ thr' = [thr EXCEPT ![t] = Idle]
    /\ UNCHANGED db

Init ==
    /\ db = <<>>
    /\ thr = [t \in Threads |-> Idle]

\* requests executed one after another
Next ==
    \E t \in SeqThreads :
        \/ CreateTask(t, TRUE, CreateBodies)
        \/ GetTask(t, TRUE, TaskIds)
        \/ UpdateTaskStatus(t, TRUE, TaskIds, StatusInputs)
        \/ GetNextTaskToProcess(t, TRUE)
        \/ ListPendingTasks(t, TRUE, ListArgs)
        \/ ListAllTasks(t, TRUE)
        \/ DeleteTask(t, TRUE, TaskIds)
        \/ Return(t)

Spec == Init /\ [][Next]_vars

\* the requests concurrent workers are given: well-formed ones for one task
ConcIds == {"T1"}

ConcCreateBodies ==
    {[NoData EXCEPT !.task_str_id = JStr(i), !.description = JStr(de),
                    !.estimated_time_minutes = JInt(m)] :
        i \in ConcIds, de \in Descriptions, m \in 1..MaxMinutes}

ConcStatusInputs == {JStr(x) : x \in Statuses}

\* concurrent workers, each serving its request segment by segment
ConcNext ==
    \E t \in Threads :
        \/ CreateTask(t, FALSE, ConcCreateBodies)
        \/ GetTask(t, FALSE, ConcIds)
        \/ UpdateTaskStatus(t, FALSE, ConcIds, ConcStatusInputs)
        \/ GetNextTaskToProcess(t, FALSE)
        \/ ListPendingTasks(t, FALSE, {NoArgs})
        \/ ListAllTasks(t, FALSE)
        \/ DeleteTask(t, FALSE, ConcIds)
        \/ Continue(t)
        \/ Return(t)

ConcSpec == Init /\ [][ConcNext]_vars

\* the well-formed bodies of POST /tasks for any id
RaceCreateBodies ==
    {[NoData EXCEPT !.task_str_id = JStr(i), !.description = JStr(de),
                    !.estimated_time_minutes = JInt(m)] :
        i \in TaskIds, de \in Descriptions, m \in 1..MaxMinutes}

\* concurrent workers that each serve one create request, segment by segment
CreateRaceNext ==
    \E t \in Threads :
        \/ CreateTask(t, FALSE, RaceCreateBodies)
        \/ Continue(t)

CreateRaceSpec == Init /\ [][CreateRaceNext]_vars

(***************************************************************************)
(* Properties.  Under Spec a step in which worker t leaves Idle is one    *)
(* whole request: the unprimed state is the store before the request, the *)
(* primed state the store after it, and thr'[t] holds the request and its *)
(* response.                                                               *)
(***************************************************************************)
Handles(t, op) ==
    thr[t] = Idle /\ thr'[t].op = op /\ thr'[t].pc = "done"

Exists(d, id) == id \in Ids(d)

TaskOf(d, id) == CHOOSE r \in {d[i] : i \in 1..Len(d)} : r.task_str_id = id

ForbiddenPairs ==
    {<<"completed", "pending">>, <<"completed", "processing">>,
     <<"processing", "pending">>}

\* the new_status of the request in frame f is one of the three statuses
AsksStatus(f) == f.data.new_status.type = "str" /\ f.data.new_status.s \in Statuses

\* C1: with requests executed one after another, an update_status request
\* whose (current status, new_status) pair is completed->pending,
\* completed->processing or processing->pending is rejected with 400
\* (illegal transition), and the store is the same after the request as
\* before it.
C1_ForbiddenTransitionRejected ==
    [][\A t \in Threads :
          (/\ Handles(t, "update_task_status")
           /\ Exists(db, thr'[t].id)
           /\ AsksStatus(thr'[t])
           /\ <<TaskOf(db, thr'[t].id).status, thr'[t].data.new_status.s>>
                  \in ForbiddenPairs)
          => (/\ thr'[t].code = 400
              /\ thr'[t].error = "Invalid status transition"
              /\ db' = db)]_vars

\* a rejected backward transition on a task that is completed
C1_Witness ==
    \E t \in Threads :
        /\ thr[t].op = "update_task_status" /\ thr[t].pc = "done"
        /\ thr[t].error = "Invalid status transition"
        /\ Exists(db, thr[t].id)
        /\ TaskOf(db, thr[t].id).status = "completed"
        /\ thr[t].data.new_status.s = "processing"

\* C2: under any interleaving of concurrent update_status requests, the
\* stored status of a task never changes from completed to pending or
\* processing, nor from processing to pending.
C2_NoBackwardWrite ==
    [][\A id \in TaskIds :
          (Exists(db, id) /\ Exists(db', id))
          => <<TaskOf(db, id).status, TaskOf(db', id).status>> \notin ForbiddenPairs]_vars

\* C3: for an existing task and a new_status among the three statuses,
\* update_status succeeds exactly when (current, new_status) is not one of
\* the three forbidden pairs; on success the stored status is new_status
\* and the returned record carries status = new_status.
C3_UpdateSucceedsUnlessForbidden ==
    [][\A t \in Threads :
          (/\ Handles(t, "update_task_status")
           /\ Exists(db, thr'[t].id)
           /\ AsksStatus(thr'[t]))
          => LET id == thr'[t].id
                 new == thr'[t].data.new_status.s
                 ok == <<TaskOf(db, id).status, new>> \notin ForbiddenPairs
             IN  /\ (thr'[t].code = 200) <=> ok
                 /\ ok => /\ Exists(db', id)
                          /\ TaskOf(db', id).status = new
                          /\ Len(thr'[t].rows) = 1
                          /\ thr'[t].rows[1] = TaskOf(db', id)
                          /\ thr'[t].rows[1].status = new]_vars

\* a successful update whose returned record carries the new status
C3_Witness ==
    \E t \in Threads :
        /\ thr[t].op = "update_task_status" /\ thr[t].pc = "done"
        /\ thr[t].code = 200
        /\ thr[t].data.new_status.s = "completed"
        /\ thr[t].rows # <<>>
        /\ thr[t].rows[1].status = "completed"

\* the body of the create request in frame f names an id and carries a
\* description string
NamesTask(f) == f.data.task_str_id.type = "str" /\ f.data.description.type = "str"

\* the estimate of the create request in frame f is an integer > 0
IntegerEstimate(f) ==
    f.data.estimated_time_minutes.type = "int" /\ f.data.estimated_time_minutes.n > 0

\* C4: in any reachable store state, a create request (id and description
\* strings) with an id not in the store and an integer estimate > 0
\* succeeds (201), and a get of that id issued immediately afterwards
\* returns the record with the submitted id, description and estimate and
\* with status pending.
C4_FreshCreateRetrievable ==
    [][\A t \in Threads :
          (/\ Handles(t, "create_task")
           /\ NamesTask(thr'[t])
           /\ IntegerEstimate(thr'[t])
           /\ ~Exists(db, thr'[t].data.task_str_id.s))
          => LET data == thr'[t].data
                 get == GetTaskSelect(db', Request("get_task", data.task_str_id.s,
                                                   NoData, NoArgs)).fr
             IN  /\ thr'[t].code = 201
                 /\ get.code = 200
                 /\ Len(get.rows) = 1
                 /\ get.rows = thr'[t].rows
                 /\ get.rows[1].task_str_id = data.task_str_id.s
                 /\ get.rows[1].description = data.description.s
                 /\ get.rows[1].estimated_time_minutes = data.estimated_time_minutes.n
                 /\ get.rows[1].status = "pending"]_vars

\* a task created while another task, no longer pending, is in the store
C4_Witness ==
    \E t \in Threads :
        /\ thr[t].op = "create_task" /\ thr[t].pc = "done" /\ thr[t].code = 201
        /\ thr[t].data.estimated_time_minutes = JInt(2)
        /\ Len(db) = 2
        /\ db[1].status = "completed"
        /\ db[2] = thr[t].rows[1]

\* C5 as stated: a create request whose id is already in the store fails
\* with DuplicateKey whatever the rest of the payload is, and leaves the
\* store unchanged.
C5_DuplicateAlwaysDuplicateKey ==
    [][\A t \in Threads :
          (/\ Handles(t, "create_task")
           /\ thr'[t].data.task_str_id.type = "str"
           /\ Exists(db, thr'[t].data.task_str_id.s))
          => (/\ thr'[t].code = 400
              /\ thr'[t].error = "task_str_id must be unique"
              /\ db' = db)]_vars

\* the payload of the create request in frame f passes the handler's
\* validation: every key present and the estimate an int (or a boolean,
\* which Python counts as one) greater than 0
PassesValidation(f) ==
    /\ \A k \in {"task_str_id", "description", "estimated_time_minutes"} :
          f.data[k] # Missing
    /\ f.data.estimated_time_minutes.type \in {"int", "bool"}
    /\ f.data.estimated_time_minutes.n > 0

\* C5 as amended: a create request whose id is already in the store fails
\* with 400 and leaves the store unchanged; the error is DuplicateKey when
\* the payload passes validation, and the validation error otherwise.
C5_DuplicateRejected ==
    [][\A t \in Threads :
          (/\ Handles(t, "create_task")
           /\ thr'[t].data.task_str_id.type = "str"
           /\ Exists(db, thr'[t].data.task_str_id.s))
          => (/\ thr'[t].code = 400
              /\ db' = db
              /\ PassesValidation(thr'[t])
                    <=> thr'[t].error = "task_str_id must be unique")]_vars

\* a duplicate create with a payload that differs from the stored record
C5_Witness ==
    \E t \in Threads :
        /\ thr[t].op = "create_task" /\ thr[t].pc = "done"
        /\ thr[t].error = "task_str_id must be unique"
        /\ thr[t].data.task_str_id.type = "str"
        /\ Exists(db, thr[t].data.task_str_id.s)
        /\ TaskOf(db, thr[t].data.task_str_id.s).description = "d"
        /\ thr[t].data.description = JStr("")
        /\ TaskOf(db, thr[t].data.task_str_id.s).status = "processing"

\* C6: a create request whose description is empty fails with InvalidInput
\* (400) and persists no record.
C6_EmptyDescriptionRejected ==
    [][\A t \in Threads :
          (Handles(t, "create_task") /\ thr'[t].data.description = JStr(""))
          => (thr'[t].code = 400 /\ db' = db)]_vars

\* C7: a create request whose estimated_time_minutes is <= 0 or is not an
\* integer (a boolean, a string, a fractional number) is rejected with
\* InvalidInput (400) and the store is identical before and after.
C7_BadEstimateRejected ==
    [][\A t \in Threads :
          (/\ Handles(t, "create_task")
           /\ thr'[t].data.estimated_time_minutes # Missing
           /\ \/ thr'[t].data.estimated_time_minutes.type # "int"
              \/ thr'[t].data.estimated_time_minutes.n <= 0)
          => (thr'[t].code = 400 /\ db' = db)]_vars

Rows(d) == {d[i] : i \in 1..Len(d)}

PendingRows(d) == {r \in Rows(d) : r.status = "pending"}

\* C8: in any reachable store state, next_to_process fails with
\* NoPendingTasks (404) exactly when no record is pending; otherwise it
\* returns one pending record r such that no pending record has a smaller
\* estimated_time_minutes and no pending record with the same estimate has
\* an earlier submitted_at.
C8_NextIsShortestThenOldest ==
    [][\A t \in Threads :
          Handles(t, "get_next_task_to_process")
          => LET P == PendingRows(db)
                 rows == thr'[t].rows
             IN  /\ (thr'[t].code = 404 /\ thr'[t].error = "No pending tasks found")
                        <=> P = {}
                 /\ P # {}
                      => /\ thr'[t].code = 200
                         /\ Len(rows) = 1
                         /\ rows[1] \in P
                         /\ \A r \in P :
                               /\ r.estimated_time_minutes >= rows[1].estimated_time_minutes
                               /\ r.estimated_time_minutes = rows[1].estimated_time_minutes
                                     => r.submitted_at >= rows[1].submitted_at]_vars

\* two pending tasks of equal estimate, the one inserted later submitted
\* earlier by the store's clock, and that one returned
C8_Witness ==
    \E t \in Threads :
        /\ thr[t].op = "get_next_task_to_process" /\ thr[t].pc = "done"
        /\ thr[t].code = 200
        /\ Len(db) = 2
        /\ db[1].status = "pending" /\ db[2].status = "pending"
        /\ db[1].estimated_time_minutes = db[2].estimated_time_minutes
        /\ db[2].submitted_at < db[1].submitted_at
        /\ thr[t].rows = <<db[2]>>

\* C9: next_to_process and list_pending are read-only: a call leaves the
\* store unchanged, a returned task keeps status pending, and a second
\* next_to_process right after the first returns the same task.
C9_SelectionReadOnly ==
    [][\A t \in Threads :
          /\ Handles(t, "list_pending_tasks") => db' = db
          /\ Handles(t, "get_next_task_to_process")
                => LET again == GetNextTaskToProcessSelect(db', thr'[t]).fr
                   IN  /\ db' = db
                       /\ \A i \in 1..Len(thr'[t].rows) : thr'[t].rows[i] \in PendingRows(db')
                       /\ again.code = thr'[t].code
                       /\ again.rows = thr'[t].rows]_vars

\* a next_to_process that returned a task, which is still pending
C9_Witness ==
    \E t \in Threads :
        /\ thr[t].op = "get_next_task_to_process" /\ thr[t].pc = "done"
        /\ thr[t].code = 200
        /\ Len(db) = 2
        /\ thr[t].rows[1] \in PendingRows(db)

\* the sort key the arguments of frame f choose
KeyOf(f, r) ==
    IF f.args.sort_by = "submitted_at" THEN r.submitted_at
    ELSE r.estimated_time_minutes

\* r1 may stand before r2 in the order the arguments of frame f ask for
InOrder(f, r1, r2) ==
    IF f.args.order = "desc" THEN KeyOf(f, r1) >= KeyOf(f, r2)
    ELSE KeyOf(f, r1) <= KeyOf(f, r2)

ValidListArgs(f) ==
    /\ f.args.sort_by \in {"estimated_time_minutes", "submitted_at", "time"}
    /\ f.args.order \in {"asc", "desc"}

Min(a, b) == IF a <= b THEN a ELSE b

\* C10: for valid sort_by and order, list_pending returns only pending
\* records, each once, ordered by the chosen key in the requested
\* direction; with no limit it returns every pending record, and with a
\* positive limit n exactly the first min(n, number of pending records)
\* records of that ordering.
C10_ListPendingOrderedAndLimited ==
    [][\A t \in Threads :
          (/\ Handles(t, "list_pending_tasks")
           /\ ValidListArgs(thr'[t])
           /\ thr'[t].args.limit = <<>> \/ thr'[t].args.limit[1] > 0)
          => LET f == thr'[t]
                 rows == f.rows
                 P == PendingRows(db)
                 returned == {rows[i] : i \in 1..Len(rows)}
             IN  /\ f.code = 200
                 /\ returned \subseteq P
                 /\ Cardinality(returned) = Len(rows)
                 /\ \A i, j \in 1..Len(rows) : i < j => InOrder(f, rows[i], rows[j])
                 /\ \A r \in returned, q \in P \ returned : InOrder(f, r, q)
                 /\ f.args.limit = <<>> => returned = P
                 /\ f.args.limit # <<>>
                       => Len(rows) = Min(f.args.limit[1], Cardinality(P))]_vars

\* the longer of two pending tasks, returned alone by a descending listing
\* by time with limit 1
C10_Witness ==
    \E t \in Threads :
        /\ thr[t].op = "list_pending_tasks" /\ thr[t].pc = "done"
        /\ thr[t].args = [sort_by |-> "time", order |-> "desc", limit |-> <<1>>]
        /\ Len(db) = 2
        /\ db[1].status = "pending" /\ db[2].status = "pending"
        /\ db[1].estimated_time_minutes < db[2].estimated_time_minutes
        /\ thr[t].rows = <<db[2]>>

\* C11: list_pending fails with InvalidParameter (400) whenever sort_by is
\* not one of estimated_time_minutes, submitted_at, time, or order is not
\* one of asc, desc, and succeeds (200) for every combination of those
\* allowed values; the store is not modified in either case.
C11_ListPendingValidatesArguments ==
    [][\A t \in Threads :
          Handles(t, "list_pending_tasks")
          => LET f == thr'[t]
                 sortOk == f.args.sort_by
                              \in {"estimated_time_minutes", "submitted_at", "time"}
                 orderOk == f.args.order \in {"asc", "desc"}
             IN  /\ (sortOk /\ orderOk) => f.code = 200 /\ f.error = ""
                 /\ ~sortOk => f.code = 400 /\ f.error = "Invalid sort_by parameter"
                 /\ (sortOk /\ ~orderOk)
                       => f.code = 400 /\ f.error = "Invalid order parameter"
                 /\ ~(sortOk /\ orderOk) => f.rows = <<>>
                 /\ db' = db]_vars

\* a listing refused for its order argument while a task is pending
C11_Witness ==
    \E t \in Threads :
        /\ thr[t].op = "list_pending_tasks" /\ thr[t].pc = "done"
        /\ thr[t].args.sort_by = "time" /\ thr[t].args.order = "ASC"
        /\ thr[t].code = 400
        /\ PendingRows(db) # {}

\* C12: delete of an id not in the store fails with NotFound (404) and
\* leaves the store unchanged; delete of an id in the store succeeds
\* whatever the task's status, removes exactly that record and no other,
\* and a subsequent get of that id fails with NotFound.
C12_DeleteRemovesExactlyOne ==
    [][\A t \in Threads :
          Handles(t, "delete_task")
          => LET id == thr'[t].id
                 get == GetTaskSelect(db', Request("get_task", id, NoData, NoArgs)).fr
             IN  /\ ~Exists(db, id)
                       => /\ thr'[t].code = 404 /\ thr'[t].error = "Task not found"
                          /\ db' = db
                 /\ Exists(db, id)
                       => /\ thr'[t].code = 200
                          /\ Len(db') = Len(db) - 1
                          /\ Rows(db') = Rows(db) \ {TaskOf(db, id)}
                          /\ get.code = 404 /\ get.error = "Task not found"]_vars

\* a successful delete that left the other task, a completed one, in place
C12_Witness ==
    \E t \in Threads :
        /\ thr[t].op = "delete_task" /\ thr[t].pc = "done" /\ thr[t].code = 200
        /\ Len(db) = 1
        /\ db[1].status = "completed"
        /\ db[1].task_str_id # thr[t].id

\* the fields of row r that no operation may change
Fixed(r) == <<r.task_str_id, r.description, r.estimated_time_minutes, r.submitted_at>>

\* C13: for as long as a task record exists, its task_str_id, description,
\* estimated_time_minutes and submitted_at never change under any
\* operation; update_status changes only the status field of the
\* addressed record and leaves every other record untouched.
C13_FieldsImmutable ==
    [][/\ \A id \in TaskIds :
             (Exists(db, id) /\ Exists(db', id))
             => Fixed(TaskOf(db', id)) = Fixed(TaskOf(db, id))
       /\ \A t \in Threads :
             Handles(t, "update_task_status")
             => /\ Ids(db') = Ids(db)
                /\ Len(db') = Len(db)
                /\ \A i \in 1..Len(db) :
                      /\ Fixed(db'[i]) = Fixed(db[i])
                      /\ db[i].task_str_id # thr'[t].id => db'[i] = db[i]]_vars

\* a successful update of one task beside another task of a different status
C13_Witness ==
    \E t \in Threads :
        /\ thr[t].op = "update_task_status" /\ thr[t].pc = "done" /\ thr[t].code = 200
        /\ Len(db) = 2
        /\ db[1].task_str_id = thr[t].id
        /\ db[1].status = "completed"
        /\ db[2].status = "pending"

\* C14: an update_status request fails with NotFound (404) when the id is
\* absent (and the body asks for one of the three statuses), and with
\* InvalidStatus (400) when new_status is not one of pending, processing,
\* completed; in both cases the store is unchanged: no record is created
\* for the absent id and the prior status of an existing task is intact.
C14_UpdateFailuresLeaveStore ==
    [][\A t \in Threads :
          Handles(t, "update_task_status")
          => LET f == thr'[t]
             IN  /\ (~Exists(db, f.id) /\ AsksStatus(f))
                       => /\ f.code = 404 /\ f.error = "Task not found"
                          /\ db' = db
                 /\ (f.data.new_status.type = "str" /\ ~AsksStatus(f))
                       => /\ f.code = 400 /\ f.error = "Invalid status"
                          /\ db' = db
                 /\ ~Exists(db, f.id)
                       => f.code \in {400, 404} /\ ~Exists(db', f.id)]_vars

\* an invalid status refused for an existing task that is processing
C14_Witness ==
    \E t \in Threads :
        /\ thr[t].op = "update_task_status" /\ thr[t].pc = "done"
        /\ thr[t].error = "Invalid status"
        /\ Exists(db, thr[t].id)
        /\ TaskOf(db, thr[t].id).status = "processing"

\* C17: update_status validates the requested status before it looks the
\* task up: a request with a new_status outside the three statuses, or
\* with no new_status, for an id that is not in the store is answered with
\* the invalid-status error (400), not with NotFound (404).
C17_ValidationBeforeLookup ==
    [][\A t \in Threads :
          (/\ Handles(t, "update_task_status")
           /\ ~Exists(db, thr'[t].id)
           /\ ~AsksStatus(thr'[t]))
          => /\ thr'[t].code = 400
             /\ thr'[t].data.new_status = Missing
                   => thr'[t].error = "Missing required field: new_status"
             /\ thr'[t].data.new_status # Missing
                   => thr'[t].error = "Invalid status"]_vars

\* an invalid status refused with 400 for an id that is not in the store
C17_Witness ==
    \E t \in Threads :
        /\ thr[t].op = "update_task_status" /\ thr[t].pc = "done"
        /\ thr[t].code = 400
        /\ thr[t].data.new_status = JStr("bogus")
        /\ ~Exists(db, thr[t].id)
        /\ db # <<>>

\* C18: list_pending treats a non-positive limit as no limit: with limit 0
\* or a negative limit (and valid sort_by and order) the call does not
\* fail and returns all pending records in the requested order, exactly
\* as when limit is absent.
C18_NonPositiveLimitIsNoLimit ==
    [][\A t \in Threads :
          (/\ Handles(t, "list_pending_tasks")
           /\ ValidListArgs(thr'[t])
           /\ thr'[t].args.limit # <<>>
           /\ thr'[t].args.limit[1] <= 0)
          => LET f == thr'[t]
                 unlimited == ListPendingTasksSelect(
                                  db, Request("list_pending_tasks", "", NoData,
                                              [f.args EXCEPT !.limit = <<>>])).fr
             IN  /\ f.code = 200
                 /\ f.rows = unlimited.rows
                 /\ Len(f.rows) = Cardinality(PendingRows(db))
                 /\ {f.rows[i] : i \in 1..Len(f.rows)} = PendingRows(db)
                 /\ \A i, j \in 1..Len(f.rows) :
                       i < j => InOrder(f, f.rows[i], f.rows[j])]_vars

\* a listing with limit 0 that returned both pending tasks
C18_Witness ==
    \E t \in Threads :
        /\ thr[t].op = "list_pending_tasks" /\ thr[t].pc = "done"
        /\ thr[t].args.limit = <<0>>
        /\ thr[t].args.order = "desc"
        /\ Len(thr[t].rows) = 2

\* the well-formed bodies of a create request for id
ValidBodies(id) ==
    {[NoData EXCEPT !.task_str_id = JStr(id), !.description = JStr(de),
                    !.estimated_time_minutes = JInt(m)] :
        de \in Descriptions, m \in 1..MaxMinutes}

Creators(id) ==
    {t \in Threads : thr[t].op = "create_task" /\ thr[t].data.task_str_id = JStr(id)}

\* C15: under any interleaving of concurrent create requests carrying the
\* same fresh id with valid payloads, exactly one of them succeeds (201)
\* and the others fail with DuplicateKey; the store holds exactly one
\* record for that id, with the description and the estimate of the
\* request that succeeded.
C15_OneCreateWins ==
    \A id \in TaskIds :
        /\ Len(SelectById(db, id)) <= 1
        /\ (Cardinality(Creators(id)) >= 2 /\ \A t \in Creators(id) : thr[t].pc = "done")
              => \E w \in Creators(id) :
                    /\ thr[w].code = 201
                    /\ SelectById(db, id) = thr[w].rows
                    /\ thr[w].rows[1].description = thr[w].data.description.s
                    /\ thr[w].rows[1].estimated_time_minutes
                          = thr[w].data.estimated_time_minutes.n
                    /\ thr[w].rows[1].status = "pending"
                    /\ \A t \in Creators(id) \ {w} :
                          /\ thr[t].code = 400
                          /\ thr[t].error = "task_str_id must be unique"

\* two creates of one id with different payloads, the second worker's won
C15_Witness ==
    /\ thr["w1"].op = "create_task" /\ thr["w1"].pc = "done"
    /\ thr["w2"].op = "create_task" /\ thr["w2"].pc = "done"
    /\ thr["w1"].data.task_str_id = thr["w2"].data.task_str_id
    /\ thr["w1"].data.description # thr["w2"].data.description
    /\ thr["w1"].data.estimated_time_minutes # thr["w2"].data.estimated_time_minutes
    /\ thr["w2"].code = 201
    /\ thr["w1"].error = "task_str_id must be unique"
    /\ Len(db) = 1

\* C16: no lifecycle state is revisited and completed is terminal: along
\* any execution, for a task that exists continuously, once its status is
\* processing or completed it is never pending again, and once it is
\* completed it stays completed until the task is deleted.
C16_NoStateRevisited ==
    [][\A id \in TaskIds :
          (Exists(db, id) /\ Exists(db', id))
          => LET before == TaskOf(db, id).status
                 after == TaskOf(db', id).status
             IN  /\ before # "pending" => after # "pending"
                 /\ before = "completed" => after = "completed"]_vars

\* C20: a completed delete is never undone by an update_status request
\* that was already in flight: when the request's write runs with the id
\* no longer in the store (a delete committed after the request's read),
\* the write affects no record and the id remains absent, and when the
\* request then reads the row back and finds none it does not report
\* success with an updated record.
C20_DeleteNotUndone ==
    [][\A t \in Threads :
          (thr[t].op = "update_task_status" /\ ~Exists(db, thr[t].id))
          => /\ (thr[t].pc = "update" /\ thr'[t].pc = "select")
                   => db' = db /\ ~Exists(db', thr[t].id)
             /\ (thr[t].pc = "select" /\ thr'[t].pc = "done")
                   => /\ db' = db
                      /\ thr'[t].code = 500
                      /\ thr'[t].rows = <<>>]_vars

\* an update that has read its task and not yet written, beside a delete of
\* that task that has committed
C20_Witness ==
    \E t, u \in Threads :
        /\ thr[t].op = "update_task_status" /\ thr[t].pc = "update"
        /\ thr[u].op = "delete_task" /\ thr[u].pc = "done" /\ thr[u].code = 200
        /\ thr[u].id = thr[t].id
        /\ ~Exists(db, thr[t].id)

====
